---- MODULE Spec2Model ----
(***************************************************************************)
(* Finance2: bank-statement workbook -> HTML dashboard + summary workbook. *)
(* Model of src/app.py (the Flask service) and src/main.py (the script);   *)
(* the processing functions are the same text in both files.               *)
(*                                                                         *)
(* Text is a sequence of one-character strings, so that lower(), upper(),  *)
(* strip() and the `in` substring test are computed, not assumed.          *)
(* A pandas cell is a record with a `nan` flag: an empty spreadsheet cell  *)
(* is read as NaN, str(NaN) is 'nan', and every comparison with NaN is     *)
(* false.                                                                  *)
(***************************************************************************)
EXTENDS Integers, Sequences, FiniteSets, TLC

(* ------------------------------ bounds ------------------------------- *)
\* longest raw header row drawn for the column-resolution harness
MaxCols == 3
\* most tabs in a workbook
MaxSheets == 2
\* generation runs in one behaviour
MaxRuns == 2
\* payees of the payments, and payers of the receipts, of the busiest tab
MaxLojas == 51
MaxClientes == 16

(* ------------------------- Python str helpers ------------------------- *)
\* letters str.lower()/str.upper() change, position by position
Minusculas ==
  <<"a","b","c","d","e","f","g","h","i","j","k","l","m","n","o","p","q","r","s","t","u","v","w","x","y","z","á","ã","â","ç","é","ê","í","ó","õ","ú">>
Maiusculas ==
  <<"A","B","C","D","E","F","G","H","I","J","K","L","M","N","O","P","Q","R","S","T","U","V","W","X","Y","Z","Á","Ã","Â","Ç","É","Ê","Í","Ó","Õ","Ú">>

\* the lower-case letter of each upper-case letter, and the reverse
ParaMinuscula == [c \in {Maiusculas[i] : i \in 1..Len(Maiusculas)} |->
                    Minusculas[CHOOSE i \in 1..Len(Maiusculas) : Maiusculas[i] = c]]
ParaMaiuscula == [c \in {Minusculas[i] : i \in 1..Len(Minusculas)} |->
                    Maiusculas[CHOOSE i \in 1..Len(Minusculas) : Minusculas[i] = c]]

\* str.lower() on one character: other characters are left as they are
LowerChar(c) == IF c \in DOMAIN ParaMinuscula THEN ParaMinuscula[c] ELSE c

\* str.upper() on one character
UpperChar(c) == IF c \in DOMAIN ParaMaiuscula THEN ParaMaiuscula[c] ELSE c

\* s.lower()
Lower(s) == [i \in 1..Len(s) |-> LowerChar(s[i])]

\* s.upper()
Upper(s) == [i \in 1..Len(s) |-> UpperChar(s[i])]

RECURSIVE LStrip(_)
LStrip(s) == IF s # <<>> /\ Head(s) = " " THEN LStrip(Tail(s)) ELSE s

RECURSIVE RStrip(_)
RStrip(s) ==
  IF s # <<>> /\ s[Len(s)] = " " THEN RStrip(SubSeq(s, 1, Len(s) - 1)) ELSE s

\* s.strip()
Strip(s) == RStrip(LStrip(s))

\* Python `sub in s` on text
Contains(sub, s) ==
  \E i \in 0..(Len(s) - Len(sub)) : SubSeq(s, i + 1, i + Len(sub)) = sub

(* ----------------------------- pandas cells --------------------------- *)
\* a text cell, a number cell, and the empty cell of either kind
Txt(s) == [nan |-> FALSE, s |-> s]
NaNTxt == [nan |-> TRUE, s |-> <<>>]
Num(n) == [nan |-> FALSE, v |-> n]
NaNNum == [nan |-> TRUE, v |-> 0]

\* str(x) of a text cell: str(float('nan')) is 'nan'
PyStr(x) == IF x.nan THEN <<"n","a","n">> ELSE x.s

\* Series.str.strip() on one cell: NaN stays NaN
StrStrip(x) == IF x.nan THEN x ELSE Txt(Strip(x.s))

\* Series.abs() on one cell
AbsCell(x) == IF x.nan THEN x ELSE Num(IF x.v < 0 THEN 0 - x.v ELSE x.v)

(* -------------------- classificar_movimentacao ------------------------ *)
s_enviado == <<"e","n","v","i","a","d","o">>
s_recebido == <<"r","e","c","e","b","i","d","o">>

\* the variant that lets the sign decide before the text says 'recebido'
classificar_movimentacao_sinal(tipo, valor) ==
  LET t == Lower(PyStr(tipo)) IN
  IF Contains(s_enviado, t) \/ (~valor.nan /\ valor.v < 0)
    THEN "Gasto"
  ELSE IF Contains(s_recebido, t) \/ (~valor.nan /\ valor.v > 0)
    THEN "Receita"
  ELSE "Outro"

classificar_movimentacao(tipo, valor) ==
  LET t == Lower(PyStr(tipo)) IN
  IF Contains(s_enviado, t)
       \/ ((~valor.nan /\ valor.v < 0) /\ ~Contains(s_recebido, t))
    THEN "Gasto"
  ELSE IF Contains(s_recebido, t) \/ (~valor.nan /\ valor.v > 0)
    THEN "Receita"
  ELSE "Outro"

(* --------------------- criar_categorias_automaticas ------------------- *)
\* the keyword table, in dict insertion order
categorias ==
  <<
    [categoria |-> "Educação", palavras |-> <<
        <<"C","O","L","E","G","I","O">>,
        <<"E","S","C","O","L","A">>,
        <<"F","A","C","U","L","D","A","D","E">>,
        <<"H","E","B","E"," ","M","A","R","S","I","G","L","I","A">> >>],
    [categoria |-> "Alimentação", palavras |-> <<
        <<"Z","A","F","F","A","R","I">>,
        <<"A","T","A","C","A","D","Ã","O">>,
        <<"S","U","P","E","R","M","E","R","C","A","D","O">>,
        <<"B","K"," ","B","R","A","S","I","L">>,
        <<"I","F","O","O","D">>,
        <<"C","O","M","E","R","C","I","A","L">> >>],
    [categoria |-> "Serviços Públicos", palavras |-> <<
        <<"C","I","A"," ","R","I","O","G","R","A","N","D","E","N","S","E">>,
        <<"C","I","A"," ","E","S","T","A","D","U","A","L">>,
        <<"S","A","N","E","M","E","N">>,
        <<"E","N","E","R","G","I","A">>,
        <<"A","G","U","A">> >>],
    [categoria |-> "Transporte", palavras |-> <<
        <<"U","B","E","R">>,
        <<"T","R","A","N","S","P","E","S","S","O","A","L">>,
        <<"B","U","S","2">>,
        <<"E","S","T","A","C","I","O","N","A","M","E","N","T","O">>,
        <<"R","E","K"," ","P","A","R","K","I","N","G">> >>],
    [categoria |-> "Saúde", palavras |-> <<
        <<"F","A","R","M","Á","C","I","A">>,
        <<"M","E","D","I","C","A","M","E","N","T","O","S">>,
        <<"B","R","A","I","R">>,
        <<"P","L","A","N","O"," ","D","E"," ","S","A","Ú","D","E">> >>],
    [categoria |-> "Compras Online", palavras |-> <<
        <<"S","H","O","P","E","E">>,
        <<"A","M","E","R","I","C","A","N","A","S">>,
        <<"N","E","T","S","H","O","E","S">>,
        <<"M","E","R","C","A","D","O"," ","L","I","V","R","E">> >>],
    [categoria |-> "Serviços Financeiros", palavras |-> <<
        <<"S","E","R","A","S","A">>,
        <<"O","P","P"," ","S","E","R","V","I","C","O","S">>,
        <<"F","I","N","A","N","C","E","I","R","O">>,
        <<"B","A","N","C","O">>,
        <<"I","T","A","U">> >>],
    [categoria |-> "Família", palavras |-> <<
        <<"M","A","U","R","I","C","I","O"," ","B","E","N","I","T","E","S">>,
        <<"D","E","B","O","R","A"," ","A","P","A","R","E","C","I","D","A">>,
        <<"S","E","L","M","A"," ","F","U","R","T","A","D","O">>,
        <<"G","I","S","E","L","E"," ","B","O","R","G","E","S">>,
        <<"J","O","Ã","O"," ","V","I","T","O","R">> >>],
    [categoria |-> "Lazer", palavras |-> <<
        <<"C","R","O","S","S"," ","E","X","P","E","R","I","E","N","C","E">>,
        <<"A","C","A","D","E","M","I","A">>,
        <<"C","I","N","E","M","A">>,
        <<"R","E","S","T","A","U","R","A","N","T","E">> >>],
    [categoria |-> "Impostos/Taxas", palavras |-> <<
        <<"I","P","V","A">>,
        <<"S","E","F","A","Z">>,
        <<"D","E","T","R","A","N">>,
        <<"G","A","D","/","E">>,
        <<"I","M","P","O","S","T","O">> >>],
    [categoria |-> "Telecomunicações", palavras |-> <<
        <<"C","L","A","R","O">>,
        <<"T","E","L","E","F","O","N","E">>,
        <<"I","N","T","E","R","N","E","T">> >>],
    [categoria |-> "Outros", palavras |-> << >>]
  >>

RECURSIVE palavra_em(_, _, _)
\* inner loop: does any keyword of the list, from index j on, occur in text u
palavra_em(palavras, j, u) ==
  IF j > Len(palavras) THEN FALSE
  ELSE IF Contains(palavras[j], u) THEN TRUE
  ELSE palavra_em(palavras, j + 1, u)

RECURSIVE percorrer_categorias(_, _)
\* outer loop over categorias.items() from index i on; returns at the first hit
percorrer_categorias(i, u) ==
  IF i > Len(categorias) THEN "Outros"
  ELSE IF palavra_em(categorias[i].palavras, 1, u) THEN categorias[i].categoria
  ELSE percorrer_categorias(i + 1, u)

\* the variant that forgets .upper()
classificar_categoria_sem_upper(destinatario) ==
  percorrer_categorias(1, PyStr(destinatario))

classificar_categoria(destinatario) ==
  percorrer_categorias(1, Upper(PyStr(destinatario)))

(* ------------- processar_extratos_bi: the column header row ------------ *)
s_valor == <<"v","a","l","o","r">>
s_valor_rs == <<"v","a","l","o","r"," ","(","r","$",")">>
s_data == <<"d","a","t","a">>
s_tipo == <<"t","i","p","o">>
s_destinatario == <<"d","e","s","t","i","n","a","t","á","r","i","o","/","p","a","g","a","d","o","r">>

Range(f) == {f[i] : i \in DOMAIN f}

\* df.columns = [col.lower().strip() for col in df.columns]
padronizar_colunas(columns) == [i \in 1..Len(columns) |-> Strip(Lower(columns[i]))]

\* df.rename(columns={old: new}): every column labelled old gets the label new
rename(columns, old, new) ==
  [i \in 1..Len(columns) |-> IF columns[i] = old THEN new ELSE columns[i]]

RECURSIVE primeira_com_valor(_, _)
\* for col in df.columns: if 'valor' in col.lower(): ... break
\* index of the first such column at or after i, 0 when the loop ends without one
primeira_com_valor(columns, i) ==
  IF i > Len(columns) THEN 0
  ELSE IF Contains(s_valor, Lower(columns[i])) THEN i
  ELSE primeira_com_valor(columns, i + 1)

\* the if / elif / for of the value column, on the padronized header row;
\* when the for loop finds nothing the header row is left as it is
resolver_coluna_valor(columns) ==
  IF s_valor_rs \in Range(columns) THEN rename(columns, s_valor_rs, s_valor)
  ELSE IF s_valor \notin Range(columns) THEN
       LET k == primeira_com_valor(columns, 1) IN
       IF k = 0 THEN columns ELSE rename(columns, columns[k], s_valor)
  ELSE columns

\* how many columns carry the label
n_colunas(columns, label) == Cardinality({i \in 1..Len(columns) : columns[i] = label})

(* ------------------------- the source workbook ------------------------- *)
\* header rows as typed in the spreadsheet
h_Data == <<"D","a","t","a">>
h_Tipo == <<"T","i","p","o">>
h_Dest == <<"D","e","s","t","i","n","a","t","á","r","i","o","/","P","a","g","a","d","o","r">>
h_Valor == <<"V","a","l","o","r">>
h_VALOR == <<" ","V","A","L","O","R"," ">>
h_ValorRS == <<"V","a","l","o","r"," ","(","R","$",")">>
h_ValorPago == <<"V","a","l","o","r"," ","P","a","g","o">>
h_TotalValor == <<"T","o","t","a","l"," ","V","a","l","o","r">>

\* a date cell: one pd.to_datetime can parse (with its year and month) or not
Data(ano, mes) == [parse |-> TRUE, ano |-> ano, mes |-> mes]
DataInvalida == [parse |-> FALSE, ano |-> 0, mes |-> 0]

\* the rows the sheets are built from
linha_gasto ==
  [data |-> Data(2024, 1), tipo |-> Txt(<<"P","i","x"," ","e","n","v","i","a","d","o"," ">>), valor |-> Num(-30),
   destinatario |-> Txt(<<"S","u","p","e","r","m","e","r","c","a","d","o"," ","Z","a","f","f","a","r","i">>)]
linha_receita ==
  [data |-> Data(2024, 2), tipo |-> Txt(<<"P","i","x"," ","r","e","c","e","b","i","d","o">>), valor |-> Num(50),
   destinatario |-> Txt(<<"B","A","N","C","O"," ","X">>)]
linha_estorno ==
  [data |-> Data(2024, 2), tipo |-> Txt(<<"E","s","t","o","r","n","o">>), valor |-> Num(0),
   destinatario |-> NaNTxt]
linha_data_ruim ==
  [data |-> DataInvalida, tipo |-> Txt(<<"P","i","x"," ","e","n","v","i","a","d","o">>), valor |-> Num(-10),
   destinatario |-> Txt(<<"U","B","E","R">>)]

\* the header row of a well-formed monthly sheet
cab_padrao == <<h_Data, h_Tipo, h_Dest, h_Valor>>

\* header rows that differ in the value column or the date column
CabecalhosVariantes ==
  { <<h_Data, h_Tipo, h_Dest, h_ValorRS>>,
    <<h_Data, h_Tipo, h_Dest, h_TotalValor, h_ValorPago>>,
    <<h_Data, h_Tipo, h_Dest>>,
    <<h_Data, h_Tipo, h_Dest, h_Valor, h_ValorRS>>,
    <<h_Tipo, h_Dest, h_Valor>> }

\* the sheets a workbook is assembled from, before they are given a tab name
Folhas ==
  {[columns |-> cab_padrao, rows |-> r] :
      r \in { <<linha_gasto, linha_receita>>, <<linha_gasto, linha_gasto>>,
              <<linha_receita>>, <<>>,
              <<linha_receita, linha_data_ruim>>, <<linha_estorno>> }}
  \cup {[columns |-> c, rows |-> <<linha_gasto, linha_receita>>] :
      c \in CabecalhosVariantes}

\* the placeholder tab the loader leaves out; here it is not empty, so that
\* leaving it out is visible
FolhaPlanilha2 ==
  [name |-> "Planilha2", columns |-> cab_padrao, rows |-> <<linha_receita>>]

NomesDeAbas == <<"Jan", "Fev", "Mar", "Abr", "Mai", "Jun">>

\* workbooks of at most MaxSheets tabs: tab k is a sheet named NomesDeAbas[k]
\* or the placeholder; tab names are unique in a workbook
Workbooks ==
  LET Escolhas == Folhas \cup {FolhaPlanilha2}
      nomear(f) == [k \in 1..Len(f) |->
                      IF f[k] = FolhaPlanilha2 THEN f[k]
                      ELSE [name |-> NomesDeAbas[k], columns |-> f[k].columns,
                            rows |-> f[k].rows]]
  IN { nomear(f) : f \in
         { g \in UNION {[1..n -> Escolhas] : n \in 0..MaxSheets} :
             Cardinality({k \in 1..Len(g) : g[k] = FolhaPlanilha2}) <= 1 } }

(* ------------------------------- files -------------------------------- *)
\* an output file: absent, or written by run `run` (0: before any run of this
\* model), wholly or only in part
SemArquivo == [exists |-> FALSE, run |-> 0, completo |-> FALSE]
Arquivo(r, c) == [exists |-> TRUE, run |-> r, completo |-> c]

\* what a file left by an earlier process holds: one document, not of this
\* behaviour
conteudo_anterior(f) == IF f.exists THEN <<"anterior">> ELSE <<>>

\* the variant that takes the workbook to be there
arquivo_existe_sempre(f) == TRUE

\* os.path.exists("Bi.xlsx") and the open inside pd.ExcelFile
arquivo_existe(f) == f.exists

(* ------------------------------- state -------------------------------- *)
\* two Flask request threads (app.py) and the script process (main.py)
Threads == {"web1", "web2", "script"}

VARIABLES
  args, ret,          \* one call of a function on its own: arguments, <<result>>
  active,             \* the threads that take requests in this behaviour
  bi_xlsx,            \* Bi.xlsx: [exists, sheets]
  dashboard_html,     \* dashboard_financeiro_bi.html
  resumo_xlsx,        \* resumo_financeiro_bi.xlsx
  html_escrito,       \* what dashboard_financeiro_bi.html holds
  xlsx_escrito,       \* what resumo_financeiro_bi.xlsx holds
  next_run,           \* number of the next generation run
  pc,                 \* where each thread is
  run,                \* the number of the run a thread is in
  abas,               \* tab names to process
  aba_idx,            \* tabs the for loop has been through
  dados_combinados,   \* frames of the tabs that were processed
  df,                 \* the unified table
  log,                \* tab names printed by the except branch
  success,            \* what gerar_dashboard returned
  erro,               \* the exception that ended the run, "" when none
  resposta            \* what the route a thread served last answered

harness == <<args, ret>>
arquivos == <<dashboard_html, resumo_xlsx, html_escrito, xlsx_escrito>>
vars == <<args, ret, active, bi_xlsx, dashboard_html, resumo_xlsx,
          html_escrito, xlsx_escrito, next_run,
          pc, run, abas, aba_idx, dados_combinados, df, log, success, erro,
          resposta>>

SemDf == [columns |-> {}, rows |-> <<>>]

\* no request served yet, or one being served
SemResposta ==
  [rota |-> "", status |-> 0, anexo |-> "", corpo |-> SemArquivo,
   message_type |-> "", files_info |-> <<>>]

\* every thread idle, nothing computed
Parado ==
  /\ pc = [p \in Threads |-> "idle"]
  /\ run = [p \in Threads |-> 0]
  /\ abas = [p \in Threads |-> <<>>]
  /\ aba_idx = [p \in Threads |-> 0]
  /\ dados_combinados = [p \in Threads |-> <<>>]
  /\ df = [p \in Threads |-> SemDf]
  /\ log = [p \in Threads |-> <<>>]
  /\ success = [p \in Threads |-> FALSE]
  /\ erro = [p \in Threads |-> ""]
  /\ resposta = [p \in Threads |-> SemResposta]

\* the service taking one request at a time, over any workbook, with the two
\* output files both absent or both left by an earlier process
Init ==
  /\ args = <<>> /\ ret = <<>>
  /\ active = {"web1"}
  /\ bi_xlsx \in {[exists |-> FALSE, sheets |-> <<>>]}
                  \cup {[exists |-> TRUE, sheets |-> w] : w \in Workbooks}
  /\ \E f \in {SemArquivo, Arquivo(0, TRUE)} :
        /\ dashboard_html = f /\ resumo_xlsx = f
        /\ html_escrito = conteudo_anterior(f)
        /\ xlsx_escrito = conteudo_anterior(f)
  /\ next_run = 1
  /\ Parado

(* ------------------------- gerar_dashboard, by step -------------------- *)
\* an exception reaches the except of gerar_dashboard (of __main__ in main.py):
\* the run ends, False is returned
Falha(p, e) ==
  /\ pc' = [pc EXCEPT ![p] = "retorno"]
  /\ success' = [success EXCEPT ![p] = FALSE]
  /\ erro' = [erro EXCEPT ![p] = e]

\* the variant that serves one generation at a time
Generate_com_trava(p) ==
  /\ p \in active /\ pc[p] = "idle" /\ next_run <= MaxRuns
  /\ \A q \in Threads : pc[q] = "idle"
  /\ run' = [run EXCEPT ![p] = next_run]
  /\ next_run' = next_run + 1
  /\ pc' = [pc EXCEPT ![p] = IF p = "script" THEN "abrir" ELSE "verificar"]
  /\ abas' = [abas EXCEPT ![p] = <<>>]
  /\ aba_idx' = [aba_idx EXCEPT ![p] = 0]
  /\ dados_combinados' = [dados_combinados EXCEPT ![p] = <<>>]
  /\ df' = [df EXCEPT ![p] = SemDf]
  /\ log' = [log EXCEPT ![p] = <<>>]
  /\ success' = [success EXCEPT ![p] = FALSE]
  /\ erro' = [erro EXCEPT ![p] = ""]
  /\ resposta' = [resposta EXCEPT ![p] = SemResposta]
  /\ UNCHANGED <<harness, active, bi_xlsx, arquivos>>

\* GET /generate arrives (app.py), or the script is started (main.py, which has
\* no os.path.exists test and goes straight to pd.ExcelFile)
Generate(p) ==
  /\ p \in active /\ pc[p] = "idle" /\ next_run <= MaxRuns
  /\ run' = [run EXCEPT ![p] = next_run]
  /\ next_run' = next_run + 1
  /\ pc' = [pc EXCEPT ![p] = IF p = "script" THEN "abrir" ELSE "verificar"]
  /\ abas' = [abas EXCEPT ![p] = <<>>]
  /\ aba_idx' = [aba_idx EXCEPT ![p] = 0]
  /\ dados_combinados' = [dados_combinados EXCEPT ![p] = <<>>]
  /\ df' = [df EXCEPT ![p] = SemDf]
  /\ log' = [log EXCEPT ![p] = <<>>]
  /\ success' = [success EXCEPT ![p] = FALSE]
  /\ erro' = [erro EXCEPT ![p] = ""]
  /\ resposta' = [resposta EXCEPT ![p] = SemResposta]
  /\ UNCHANGED <<harness, active, bi_xlsx, arquivos>>

\* if not os.path.exists("Bi.xlsx"): raise
Verificar(p) ==
  /\ pc[p] = "verificar"
  /\ IF arquivo_existe(bi_xlsx)
       THEN /\ pc' = [pc EXCEPT ![p] = "abrir"]
            /\ UNCHANGED <<success, erro>>
       ELSE Falha(p, "Arquivo Bi.xlsx não encontrado")
  /\ UNCHANGED <<harness, active, resposta, bi_xlsx, arquivos, next_run, run, abas,
                 aba_idx, dados_combinados, df, log>>

\* abas = [sheet for sheet in xl.sheet_names if sheet != 'Planilha2']
listar_abas(sheets) ==
  LET nomes == [k \in 1..Len(sheets) |-> sheets[k].name]
  IN SelectSeq(nomes, LAMBDA n : n # "Planilha2")

\* xl = pd.ExcelFile(arquivo_excel); abas = [...]; dados_combinados = []
Abrir(p) ==
  /\ pc[p] = "abrir"
  /\ IF arquivo_existe(bi_xlsx)
       THEN /\ abas' = [abas EXCEPT ![p] = listar_abas(bi_xlsx.sheets)]
            /\ pc' = [pc EXCEPT ![p] = "abas"]
            /\ UNCHANGED <<success, erro>>
       ELSE /\ Falha(p, "FileNotFoundError: Bi.xlsx")
            /\ UNCHANGED abas
  /\ UNCHANGED <<harness, active, resposta, bi_xlsx, arquivos, next_run, run,
                 aba_idx, dados_combinados, df, log>>

\* pd.read_excel(arquivo_excel, sheet_name=aba)
ler_aba(sheets, aba) == CHOOSE s \in Range(sheets) : s.name = aba

\* the variant with errors='coerce': a cell that does not parse becomes NaT
data_convertida_coerce(columns, rows) == n_colunas(columns, s_data) = 1

\* df['data'] = pd.to_datetime(df['data']) goes through: there is one 'data'
\* column (none: KeyError; several: df['data'] is a frame to_datetime rejects)
\* and every cell of it parses
data_convertida(columns, rows) ==
  /\ n_colunas(columns, s_data) = 1
  /\ \A k \in 1..Len(rows) : rows[k].data.parse

\* the body of the try for one tab: the frame appended to dados_combinados
normalizar_aba(s) ==
  [columns |-> resolver_coluna_valor(padronizar_colunas(s.columns)),
   rows |-> [k \in 1..Len(s.rows) |->
              [data |-> s.rows[k].data, tipo |-> s.rows[k].tipo,
               valor |-> s.rows[k].valor,
               destinatario |-> s.rows[k].destinatario,
               origem |-> s.name]]]

\* the variant whose except branch is never taken
aba_falha_nunca(s) == FALSE

\* whether the try of one tab ends in the except branch
aba_falha(s) ==
  LET f == normalizar_aba(s) IN ~data_convertida(f.columns, f.rows)

\* one iteration of `for aba in abas`: append the frame, or print and continue
ProcessarAba(p) ==
  /\ pc[p] = "abas" /\ aba_idx[p] < Len(abas[p])
  /\ LET aba == abas[p][aba_idx[p] + 1]
         s == ler_aba(bi_xlsx.sheets, aba)
     IN IF aba_falha(s)
          THEN /\ log' = [log EXCEPT ![p] = Append(@, aba)]
               /\ UNCHANGED dados_combinados
          ELSE /\ dados_combinados' =
                    [dados_combinados EXCEPT ![p] = Append(@, normalizar_aba(s))]
               /\ UNCHANGED log
  /\ aba_idx' = [aba_idx EXCEPT ![p] = @ + 1]
  /\ UNCHANGED <<harness, active, resposta, bi_xlsx, arquivos, next_run, pc, run, abas,
                 df, success, erro>>

\* a row of one frame as pd.concat lays it out under the union of the columns:
\* a column its frame does not have is NaN
linha_concat(f, r) ==
  [data |-> r.data,
   tipo |-> IF s_tipo \in Range(f.columns) THEN r.tipo ELSE NaNTxt,
   valor |-> IF s_valor \in Range(f.columns) THEN r.valor ELSE NaNNum,
   destinatario |->
     IF s_destinatario \in Range(f.columns) THEN r.destinatario ELSE NaNTxt,
   origem |-> r.origem]

RECURSIVE concat_invertido(_, _)
\* the variant that lays the frames out last to first
concat_invertido(frames, k) ==
  IF k > Len(frames) THEN <<>>
  ELSE concat_invertido(frames, k + 1)
       \o [j \in 1..Len(frames[k].rows) |->
             linha_concat(frames[k], frames[k].rows[j])]

RECURSIVE concat(_, _)
\* pd.concat(dados_combinados, ignore_index=True), frames k.. : frame after
\* frame, each frame's rows in their order
concat(frames, k) ==
  IF k > Len(frames) THEN <<>>
  ELSE [j \in 1..Len(frames[k].rows) |-> linha_concat(frames[k], frames[k].rows[j])]
       \o concat(frames, k + 1)

\* the columns the row-wise steps add to one row of df_completo
classificar_linha(r) ==
  LET t == StrStrip(r.tipo) IN
  [data |-> r.data, tipo |-> t, valor |-> r.valor,
   destinatario |-> r.destinatario, origem |-> r.origem,
   tipo_movimentacao |-> classificar_movimentacao(t, r.valor),
   valor_absoluto |-> AbsCell(r.valor),
   mes |-> r.data.mes, ano |-> r.data.ano,
   mes_ano_period |-> <<r.data.ano, r.data.mes>>]

\* the exception the steps after the loop raise on these frames, "" when none.
\* Two columns labelled 'valor' in a frame end the run in every case: in
\* pd.concat when the frames' columns differ, else in `valor < 0 and ...`
\* on a Series, else in assigning the two-column .abs() to one column.
erro_ao_unificar(frames) ==
  LET colunas == UNION {Range(frames[k].columns) : k \in DOMAIN frames}
      linhas == concat(frames, 1)
  IN IF frames = <<>> THEN "ValueError: Nenhuma aba válida foi encontrada"
     ELSE IF \E k \in DOMAIN frames : n_colunas(frames[k].columns, s_valor) > 1
       THEN "ValueError: duas colunas 'valor'"
     ELSE IF s_tipo \notin colunas THEN "KeyError: 'tipo'"
     ELSE IF linhas # <<>> /\ \A j \in 1..Len(linhas) : linhas[j].tipo.nan
       THEN "AttributeError: .str"
     ELSE IF s_valor \notin colunas THEN "KeyError: 'valor'"
     ELSE ""

\* from `if not dados_combinados` to `return df_completo`
Unificar(p) ==
  /\ pc[p] = "abas" /\ aba_idx[p] = Len(abas[p])
  /\ LET frames == dados_combinados[p]
         e == erro_ao_unificar(frames)
         linhas == concat(frames, 1)
     IN IF e # ""
          THEN Falha(p, e) /\ UNCHANGED df
          ELSE \* on a table of no rows DataFrame.apply returns a frame, and
               \* whether assigning it to one column raises depends on the
               \* pandas release
               \E lanca \in (IF linhas = <<>> THEN BOOLEAN ELSE {FALSE}) :
                 IF lanca
                   THEN Falha(p, "ValueError: apply em tabela vazia")
                        /\ UNCHANGED df
                   ELSE /\ df' = [df EXCEPT ![p] =
                             [columns |->
                                UNION {Range(frames[k].columns) : k \in DOMAIN frames},
                              rows |-> [j \in 1..Len(linhas) |->
                                          classificar_linha(linhas[j])]]]
                        /\ pc' = [pc EXCEPT ![p] = "categorias"]
                        /\ UNCHANGED <<success, erro>>
  \* the function returns or raises: its list of frames is dropped
  /\ dados_combinados' = [dados_combinados EXCEPT ![p] = <<>>]
  /\ UNCHANGED <<harness, active, resposta, bi_xlsx, arquivos, next_run, run, abas,
                 aba_idx, log>>

\* df['categoria'] = df['destinatário/pagador'].apply(classificar_categoria)
Categorizar(p) ==
  /\ pc[p] = "categorias"
  /\ IF s_destinatario \in df[p].columns
       THEN /\ df' = [df EXCEPT ![p].rows =
                 [j \in 1..Len(@) |->
                    [data |-> @[j].data, tipo |-> @[j].tipo, valor |-> @[j].valor,
                     destinatario |-> @[j].destinatario, origem |-> @[j].origem,
                     tipo_movimentacao |-> @[j].tipo_movimentacao,
                     valor_absoluto |-> @[j].valor_absoluto,
                     mes |-> @[j].mes, ano |-> @[j].ano,
                     mes_ano_period |-> @[j].mes_ano_period,
                     categoria |-> classificar_categoria(@[j].destinatario)]]]
            /\ pc' = [pc EXCEPT ![p] = "dashboard"]
            /\ UNCHANGED <<success, erro>>
       ELSE Falha(p, "KeyError: 'destinatário/pagador'") /\ UNCHANGED df
  /\ UNCHANGED <<harness, active, resposta, bi_xlsx, arquivos, next_run, run, abas,
                 aba_idx, dados_combinados, log>>

\* df[df['tipo_movimentacao'] == m]
do_tipo(rows, m) == SelectSeq(rows, LAMBDA r : r.tipo_movimentacao = m)

\* the index of X.groupby('destinatário/pagador')[...].sum(): groupby leaves
\* out the rows whose key is NaN
destinatarios(rows) ==
  {rows[j].destinatario.s : j \in {k \in 1..Len(rows) : ~rows[k].destinatario.nan}}

(* ---------------------------- the aggregates --------------------------- *)
\* Series.sum() of 'valor_absoluto' over rows: NaN cells are skipped
RECURSIVE soma(_)
soma(rows) ==
  IF rows = <<>> THEN 0
  ELSE (IF Head(rows).valor_absoluto.nan THEN 0 ELSE Head(rows).valor_absoluto.v)
       + soma(Tail(rows))

\* the characters of the texts, by code point: groupby sorts its keys
Caracteres ==
  <<" ","$","(",")","-","/","0","1","2","3","4","5","6","7","8","9","A","B","C","D","E","F","G","H","I","J","K","L","M","N","O","P","Q","R","S","T","U","V","W","X","Y","Z","a","b","c","d","e","f","g","h","i","j","k","l","m","n","o","p","q","r","s","t","u","v","w","x","y","z","Á","Â","Ã","Ç","É","Ê","Í","Ó","Õ","Ú","á","â","ã","ç","é","ê","í","ó","õ","ú">>

ord == [c \in Range(Caracteres) |->
          CHOOSE i \in 1..Len(Caracteres) : Caracteres[i] = c]

RECURSIVE menor_texto(_, _)
\* a < b on Python str
menor_texto(a, b) ==
  IF b = <<>> THEN FALSE
  ELSE IF a = <<>> THEN TRUE
  ELSE IF Head(a) = Head(b) THEN menor_texto(Tail(a), Tail(b))
  ELSE ord[Head(a)] < ord[Head(b)]

\* a < b on Period('M')
menor_periodo(a, b) == a[1] < b[1] \/ (a[1] = b[1] /\ a[2] < b[2])

\* the category names as groupby('categoria') sorts them
categorias_em_ordem ==
  <<"Alimentação", "Compras Online", "Educação", "Família", "Impostos/Taxas",
    "Lazer", "Outros", "Saúde", "Serviços Financeiros", "Serviços Públicos",
    "Telecomunicações", "Transporte">>

menor_categoria(a, b) ==
  \E i, j \in 1..Len(categorias_em_ordem) :
     i < j /\ categorias_em_ordem[i] = a /\ categorias_em_ordem[j] = b

\* the movement types as unstack() sorts its columns
tipos_em_ordem == <<"Gasto", "Outro", "Receita">>

\* the keys of a groupby: each once, sorted; menores[x] is the set of the
\* keys that sort before x
em_ordem(S, menores) ==
  LET antes == [x \in S |-> Cardinality(menores[x])]
  IN [i \in 1..Cardinality(S) |-> CHOOSE x \in S : antes[x] = i - 1]

\* Series.sort_values(ascending=False) on the entries [chave, total]: equal
\* totals stay in the order they had
decrescente(s) ==
  LET antes == [i \in 1..Len(s) |->
                  Cardinality({j \in 1..Len(s) :
                                 \/ s[j].total > s[i].total
                                 \/ (s[j].total = s[i].total /\ j < i)})]
  IN [k \in 1..Len(s) |-> s[CHOOSE i \in 1..Len(s) : antes[i] = k - 1]]

\* .head(n)
head(s, n) == SubSeq(s, 1, IF Len(s) < n THEN Len(s) ELSE n)

\* Series.nlargest(n): the n largest, largest first, the first of equal ones
\* kept
nlargest(s, n) == head(decrescente(s), n)

\* X.groupby('categoria')['valor_absoluto'].sum()
por_categoria(rows) ==
  LET S == {rows[j].categoria : j \in 1..Len(rows)}
      cs == em_ordem(S, [x \in S |-> {y \in S : menor_categoria(y, x)}])
  IN [k \in 1..Len(cs) |->
        [chave |-> cs[k],
         total |-> soma(SelectSeq(rows, LAMBDA r : r.categoria = cs[k]))]]

\* X.groupby('destinatário/pagador')['valor_absoluto'].sum()
por_destinatario(rows) ==
  LET S == destinatarios(rows)
      ds == em_ordem(S, [x \in S |-> {y \in S : menor_texto(y, x)}])
  IN [k \in 1..Len(ds) |->
        [chave |-> ds[k],
         total |-> soma(SelectSeq(rows, LAMBDA r :
                     ~r.destinatario.nan /\ r.destinatario.s = ds[k]))]]

\* the variant that groups the rows of every movement type
gastos_por_categoria_de_todos(rows) == decrescente(por_categoria(rows))

\* gastos.groupby('categoria')['valor_absoluto'].sum().sort_values(ascending=False)
gastos_por_categoria(rows) == decrescente(por_categoria(do_tipo(rows, "Gasto")))

\* the variant that takes the payees of every row
principais_de_todos(rows, m, n) == nlargest(por_destinatario(rows), n)

\* df[df['tipo_movimentacao'] == m].groupby('destinatário/pagador')
\*   ['valor_absoluto'].sum().nlargest(n)
principais(rows, m, n) == nlargest(por_destinatario(do_tipo(rows, m)), n)

Digitos == <<"0","1","2","3","4","5","6","7","8","9">>
dois_digitos(n) == <<Digitos[(n \div 10) + 1], Digitos[(n % 10) + 1]>>

\* str(Period('M')): 'YYYY-MM'
period_str(p) ==
  dois_digitos(p[1] \div 100) \o dois_digitos(p[1] % 100) \o <<"-">>
    \o dois_digitos(p[2])

\* the periods of the rows, each once, in chronological order
periodos(rows) ==
  LET S == {rows[j].mes_ano_period : j \in 1..Len(rows)}
  IN em_ordem(S, [x \in S |-> {y \in S : menor_periodo(y, x)}])

\* one cell of an unstacked groupby sum: the sum of the group, and `fill`
\* where the group has no row
celula(rows, fill) == IF rows = <<>> THEN fill ELSE Num(soma(rows))

\* the variant that keys the periods by the tab the row came from
evolucao_mensal_por_aba(rows) ==
  LET S == {rows[j].origem : j \in 1..Len(rows)}
      ns == em_ordem(S, [x \in S |-> {y \in S :
              \E i, j \in 1..Len(NomesDeAbas) :
                 i < j /\ NomesDeAbas[i] = y /\ NomesDeAbas[j] = x}])
      ts == SelectSeq(tipos_em_ordem, LAMBDA m : do_tipo(rows, m) # <<>>)
  IN [index |-> [k \in 1..Len(ns) |-> ns[k]],
      columns |-> ts,
      values |-> [k \in 1..Len(ns) |-> [c \in 1..Len(ts) |->
                    celula(SelectSeq(rows, LAMBDA r :
                             r.origem = ns[k] /\ r.tipo_movimentacao = ts[c]),
                           Num(0))]]]

\* df.groupby(['mes_ano_period', 'tipo_movimentacao'])['valor_absoluto'].sum()
\*   .unstack(fill_value=0), then index.astype(str)
evolucao_mensal(rows) ==
  LET ps == periodos(rows)
      ts == SelectSeq(tipos_em_ordem, LAMBDA m : do_tipo(rows, m) # <<>>)
  IN [index |-> [k \in 1..Len(ps) |-> period_str(ps[k])],
      columns |-> ts,
      values |-> [k \in 1..Len(ps) |-> [c \in 1..Len(ts) |->
                    celula(SelectSeq(rows, LAMBDA r :
                             r.mes_ano_period = ps[k] /\ r.tipo_movimentacao = ts[c]),
                           Num(0))]]]

\* X.groupby / pivot_table by (mes_ano_period, categoria), missing cells 0
mensal_por_categoria(rows) ==
  LET ps == periodos(rows)
      S == {rows[j].categoria : j \in 1..Len(rows)}
      cs == em_ordem(S, [x \in S |-> {y \in S : menor_categoria(y, x)}])
  IN [index |-> [k \in 1..Len(ps) |-> period_str(ps[k])],
      columns |-> cs,
      values |-> [k \in 1..Len(ps) |-> [c \in 1..Len(cs) |->
                    celula(SelectSeq(rows, LAMBDA r :
                             r.mes_ano_period = ps[k] /\ r.categoria = cs[c]),
                           Num(0))]]]

\* gastos[gastos['categoria'].isin(top_categorias)].groupby(...).unstack(fill_value=0)
gastos_mensais_categoria(rows) ==
  LET top == head(gastos_por_categoria(rows), 5)
      top_categorias == {top[k].chave : k \in 1..Len(top)}
  IN mensal_por_categoria(SelectSeq(do_tipo(rows, "Gasto"),
                                    LAMBDA r : r.categoria \in top_categorias))

\* resumo_mensal['Receita'] - resumo_mensal['Gasto'] on one row: NaN when
\* either cell is NaN
subtrair(a, b) == IF a.nan \/ b.nan THEN NaNNum ELSE Num(a.v - b.v)

\* df.groupby(['ano', 'mes', 'mes_ano_period', 'tipo_movimentacao'])
\*   ['valor_absoluto'].sum().unstack(), and the 'Saldo' column when both
\* 'Gasto' and 'Receita' are columns; a missing cell is NaN
resumo_mensal(rows) ==
  LET ps == periodos(rows)
      ts == SelectSeq(tipos_em_ordem, LAMBDA m : do_tipo(rows, m) # <<>>)
      com_saldo == "Gasto" \in Range(ts) /\ "Receita" \in Range(ts)
      cel(k, m) == celula(SelectSeq(rows, LAMBDA r :
                            r.mes_ano_period = ps[k] /\ r.tipo_movimentacao = m),
                          NaNNum)
  IN [index |-> [k \in 1..Len(ps) |-> <<ps[k][1], ps[k][2], ps[k]>>],
      columns |-> IF com_saldo THEN Append(ts, "Saldo") ELSE ts,
      values |-> [k \in 1..Len(ps) |->
                    [c \in 1..(Len(ts) + IF com_saldo THEN 1 ELSE 0) |->
                       IF c <= Len(ts) THEN cel(k, ts[c])
                       ELSE subtrair(cel(k, "Receita"), cel(k, "Gasto"))]]]

\* df.nlargest(50, 'valor_absoluto')[[...]]: largest first, equal ones in
\* table order, the rows whose value is NaN after the others
top_transacoes(rows) ==
  LET com == SelectSeq(rows, LAMBDA r : ~r.valor_absoluto.nan)
      sem == SelectSeq(rows, LAMBDA r : r.valor_absoluto.nan)
      chaves == [j \in 1..Len(com) |-> [chave |-> j, total |-> com[j].valor_absoluto.v]]
      ordem == decrescente(chaves)
      todas == [k \in 1..Len(com) |-> com[ordem[k].chave]] \o sem
  IN [k \in 1..Len(head(todas, 50)) |->
        [data |-> todas[k].data, tipo |-> todas[k].tipo,
         destinatario |-> todas[k].destinatario, valor |-> todas[k].valor,
         categoria |-> todas[k].categoria, mes_ano |-> todas[k].origem]]

\* what the page shows: the three metrics and the row counts, the series of
\* the figure, the insights
html_content(rows) ==
  LET gastos == do_tipo(rows, "Gasto")
      receitas == do_tipo(rows, "Receita")
  IN [total_gastos |-> soma(gastos),
      total_receitas |-> soma(receitas),
      saldo |-> soma(receitas) - soma(gastos),
      n_gastos |-> Len(gastos), n_receitas |-> Len(receitas),
      gastos_por_categoria |-> gastos_por_categoria(rows),
      principais_destinos |-> principais(rows, "Gasto", 15),
      principais_fontes |-> principais(rows, "Receita", 15),
      evolucao_mensal |-> evolucao_mensal(rows),
      gastos_mensais_categoria |-> gastos_mensais_categoria(rows),
      n_meses |-> Len(periodos(rows))]

\* the seven sheets of the workbook, in the order they are written
planilhas(rows) ==
  << [sheet_name |-> "Resumo Mensal", tabela |-> resumo_mensal(rows)],
     [sheet_name |-> "Gastos por Categoria", tabela |-> gastos_por_categoria(rows)],
     [sheet_name |-> "Principais Destinatários", tabela |-> principais(rows, "Gasto", 50)],
     [sheet_name |-> "Fontes Pagadoras", tabela |-> principais(rows, "Receita", 50)],
     [sheet_name |-> "Evolução Categorias",
      tabela |-> mensal_por_categoria(do_tipo(rows, "Gasto"))],
     [sheet_name |-> "Top Transações", tabela |-> top_transacoes(rows)],
     [sheet_name |-> "Dados Completos", tabela |-> rows] >>

\* the variant whose insights are guarded against empty series
erro_no_dashboard_protegido(rows) == ""

\* the exception building the page raises, "" when none: principais_destinos
\* .index[0], principais_fontes.index[0] and gastos_por_categoria.index[0]
\* are read for the insights before the file is opened
erro_no_dashboard(rows) ==
  IF destinatarios(do_tipo(rows, "Gasto")) = {}
    THEN "IndexError: principais_destinos"
  ELSE IF destinatarios(do_tipo(rows, "Receita")) = {}
    THEN "IndexError: principais_fontes"
  ELSE IF do_tipo(rows, "Gasto") = <<>>
    THEN "IndexError: gastos_por_categoria"
  ELSE ""

\* what a write to an output file can come to: done; the open refused (the
\* file is as before); an error after the open (the file is there, cut short)
ResultadosDeEscrita == {"ok", "open", "write"}

\* the variant that removes the file it could not finish
escrever_apagando(antes, r, io) ==
  IF io = "ok" THEN Arquivo(r, TRUE)
  ELSE IF io = "open" THEN antes
  ELSE SemArquivo

escrever(antes, r, io) ==
  IF io = "ok" THEN Arquivo(r, TRUE)
  ELSE IF io = "open" THEN antes
  ELSE Arquivo(r, FALSE)

\* the variant that opens the file to append
conteudo_acrescentado(antes, doc, io) ==
  IF io = "ok" THEN Append(antes, doc)
  ELSE IF io = "open" THEN antes
  ELSE antes

\* what the file holds after open(..., 'w') and the write: the one document;
\* what it held when the open was refused; nothing when the write failed
\* after the open had truncated the file
conteudo_escrito(antes, doc, io) ==
  IF io = "ok" THEN <<doc>>
  ELSE IF io = "open" THEN antes
  ELSE <<>>

\* the variant that opens the file first and builds the page text inside the
\* with block
CriarDashboard_abrindo_antes(p) ==
  /\ pc[p] = "dashboard"
  /\ LET e == erro_no_dashboard(df[p].rows) IN
     \E io \in ResultadosDeEscrita :
       /\ dashboard_html' =
            escrever(dashboard_html, run[p],
                     IF e # "" /\ io = "ok" THEN "write" ELSE io)
       /\ html_escrito' =
            conteudo_escrito(html_escrito, html_content(df[p].rows),
                             IF e # "" /\ io = "ok" THEN "write" ELSE io)
       /\ IF io = "ok" /\ e = ""
            THEN /\ pc' = [pc EXCEPT ![p] = "exportar"]
                 /\ UNCHANGED <<success, erro>>
            ELSE Falha(p, IF io = "open" \/ e = ""
                            THEN "OSError: dashboard_financeiro_bi.html" ELSE e)
  /\ UNCHANGED <<harness, active, resposta, bi_xlsx, resumo_xlsx, xlsx_escrito,
                 next_run, run, abas, aba_idx, dados_combinados, df, log>>

\* criar_dashboard_html_bi(df): the aggregates and the page text, then
\* open('dashboard_financeiro_bi.html', 'w') and write
CriarDashboard(p) ==
  /\ pc[p] = "dashboard"
  /\ LET e == erro_no_dashboard(df[p].rows) IN
     IF e # ""
       THEN Falha(p, e) /\ UNCHANGED <<dashboard_html, html_escrito>>
       ELSE \E io \in ResultadosDeEscrita :
              /\ dashboard_html' = escrever(dashboard_html, run[p], io)
              /\ html_escrito' =
                   conteudo_escrito(html_escrito, html_content(df[p].rows), io)
              /\ IF io = "ok"
                   THEN /\ pc' = [pc EXCEPT ![p] = "exportar"]
                        /\ UNCHANGED <<success, erro>>
                   ELSE Falha(p, "OSError: dashboard_financeiro_bi.html")
  /\ UNCHANGED <<harness, active, resposta, bi_xlsx, resumo_xlsx, xlsx_escrito,
                 next_run, run, abas, aba_idx, dados_combinados, df, log>>

\* the variant that removes the page of the run when the workbook fails
ExportarDesfazendo(p) ==
  /\ pc[p] = "exportar"
  /\ \E io \in ResultadosDeEscrita :
       /\ resumo_xlsx' = escrever(resumo_xlsx, run[p], io)
       /\ xlsx_escrito' = conteudo_escrito(xlsx_escrito, planilhas(df[p].rows), io)
       /\ IF io = "ok"
            THEN /\ pc' = [pc EXCEPT ![p] = "retorno"]
                 /\ success' = [success EXCEPT ![p] = TRUE]
                 /\ UNCHANGED <<erro, dashboard_html, html_escrito>>
            ELSE /\ Falha(p, "OSError: resumo_financeiro_bi.xlsx")
                 /\ dashboard_html' = SemArquivo
                 /\ html_escrito' = <<>>
  /\ UNCHANGED <<harness, active, resposta, bi_xlsx, next_run, run, abas,
                 aba_idx, dados_combinados, df, log>>

\* exportar_resumos_excel_bi(df): pd.ExcelWriter opens the file, the seven
\* sheets are written, the with block saves; then return True
Exportar(p) ==
  /\ pc[p] = "exportar"
  /\ \E io \in ResultadosDeEscrita :
       /\ resumo_xlsx' = escrever(resumo_xlsx, run[p], io)
       /\ xlsx_escrito' = conteudo_escrito(xlsx_escrito, planilhas(df[p].rows), io)
       /\ IF io = "ok"
            THEN /\ pc' = [pc EXCEPT ![p] = "retorno"]
                 /\ success' = [success EXCEPT ![p] = TRUE]
                 /\ UNCHANGED erro
            ELSE Falha(p, "OSError: resumo_financeiro_bi.xlsx")
  /\ UNCHANGED <<harness, active, resposta, bi_xlsx, dashboard_html, html_escrito,
                 next_run, run, abas, aba_idx, dados_combinados, df, log>>

\* get_file_info(): for each output file, whether os.path.exists finds it
get_file_info ==
  << [name |-> "Dashboard HTML", disponivel |-> dashboard_html.exists],
     [name |-> "Relatório Excel", disponivel |-> resumo_xlsx.exists] >>

\* render_template_string(HTML_TEMPLATE, message_type=..., files_info=...):
\* the page, answered with Flask's default status
pagina(rota, message_type) ==
  [rota |-> rota, status |-> 200, anexo |-> "", corpo |-> SemArquivo,
   message_type |-> message_type, files_info |-> get_file_info]

\* send_file(path, as_attachment=True)
send_file(rota, path, f) ==
  [rota |-> rota, status |-> 200, anexo |-> path, corpo |-> f,
   message_type |-> "", files_info |-> <<>>]

\* the variant that renders the success message whatever gerar_dashboard
\* returned
Terminar_sem_olhar_o_retorno(p) ==
  /\ pc[p] = "retorno"
  /\ pc' = [pc EXCEPT ![p] = "idle"]
  /\ resposta' = [resposta EXCEPT ![p] =
        IF p = "script" THEN SemResposta ELSE pagina("generate", "success")]
  /\ UNCHANGED <<harness, active, bi_xlsx, arquivos, next_run, run, abas,
                 aba_idx, dados_combinados, df, log, success, erro>>

\* generate() renders the page with the message for `success` (the script:
\* the process ends, nothing is answered); the thread is free for the next
\* request
Terminar(p) ==
  /\ pc[p] = "retorno"
  /\ pc' = [pc EXCEPT ![p] = "idle"]
  /\ resposta' = [resposta EXCEPT ![p] =
        IF p = "script" THEN SemResposta
        ELSE pagina("generate", IF success[p] THEN "success" ELSE "error")]
  /\ UNCHANGED <<harness, active, bi_xlsx, arquivos, next_run, run, abas,
                 aba_idx, dados_combinados, df, log, success, erro>>

\* GET /: the status page
Index(p) ==
  /\ p \in active /\ p # "script" /\ pc[p] = "idle"
  /\ resposta' = [resposta EXCEPT ![p] = pagina("index", "")]
  /\ UNCHANGED <<harness, active, bi_xlsx, arquivos, next_run, pc, run, abas,
                 aba_idx, dados_combinados, df, log, success, erro>>

\* GET /download-dashboard
DownloadDashboard(p) ==
  /\ p \in active /\ p # "script" /\ pc[p] = "idle"
  /\ resposta' = [resposta EXCEPT ![p] =
        IF dashboard_html.exists
          THEN send_file("download-dashboard", "dashboard_financeiro_bi.html",
                         dashboard_html)
          ELSE pagina("download-dashboard", "error")]
  /\ UNCHANGED <<harness, active, bi_xlsx, arquivos, next_run, pc, run, abas,
                 aba_idx, dados_combinados, df, log, success, erro>>

\* GET /download-excel
DownloadExcel(p) ==
  /\ p \in active /\ p # "script" /\ pc[p] = "idle"
  /\ resposta' = [resposta EXCEPT ![p] =
        IF resumo_xlsx.exists
          THEN send_file("download-excel", "resumo_financeiro_bi.xlsx",
                         resumo_xlsx)
          ELSE pagina("download-excel", "error")]
  /\ UNCHANGED <<harness, active, bi_xlsx, arquivos, next_run, pc, run, abas,
                 aba_idx, dados_combinados, df, log, success, erro>>

Next ==
  \E p \in Threads :
    \/ Generate(p)
    \/ Verificar(p)
    \/ Abrir(p)
    \/ ProcessarAba(p)
    \/ Unificar(p)
    \/ Categorizar(p)
    \/ CriarDashboard(p)
    \/ Exportar(p)
    \/ Terminar(p)
    \/ Index(p)
    \/ DownloadDashboard(p)
    \/ DownloadExcel(p)

Spec == Init /\ [][Next]_vars

\* main.py run as a script: the same steps without the os.path.exists test
InitScript ==
  /\ args = <<>> /\ ret = <<>>
  /\ active = {"script"}
  /\ bi_xlsx \in {[exists |-> FALSE, sheets |-> <<>>]}
                  \cup {[exists |-> TRUE, sheets |-> w] : w \in Workbooks}
  /\ \E f \in {SemArquivo, Arquivo(0, TRUE)} :
        /\ dashboard_html = f /\ resumo_xlsx = f
        /\ html_escrito = conteudo_anterior(f)
        /\ xlsx_escrito = conteudo_anterior(f)
  /\ next_run = 1
  /\ Parado

NextScript ==
  \E p \in Threads :
    \/ Generate(p)
    \/ Abrir(p)
    \/ ProcessarAba(p)
    \/ Unificar(p)
    \/ Categorizar(p)
    \/ CriarDashboard(p)
    \/ Exportar(p)
    \/ Terminar(p)

SpecScript == InitScript /\ [][NextScript]_vars

(* ------------- the service over workbooks with many movements ------------- *)
linha_uber ==
  [data |-> Data(2024, 3), tipo |-> Txt(<<"P","i","x"," ","e","n","v","i","a","d","o">>), valor |-> Num(-30),
   destinatario |-> Txt(<<"U","b","e","r"," ","d","o"," ","B","r","a","s","i","l">>)]

\* the k-th payment of the busy tab: its own payee, amounts that repeat, in
\* December 2023 or January 2024
linha_loja(k) ==
  [data |-> IF k % 2 = 1 THEN Data(2023, 12) ELSE Data(2024, 1),
   tipo |-> Txt(<<"P","i","x"," ","e","n","v","i","a","d","o">>),
   valor |-> Num(0 - (1 + ((k * 7) % 13))),
   destinatario |-> Txt(<<"L","O","J","A"," ">> \o dois_digitos(k))]

\* the k-th receipt of the busy tab
linha_cliente(k) ==
  [data |-> Data(2024, 2),
   tipo |-> Txt(<<"P","i","x"," ","r","e","c","e","b","i","d","o">>),
   valor |-> Num(1 + ((k * 5) % 7)),
   destinatario |-> Txt(<<"C","L","I","E","N","T","E"," ">> \o dois_digitos(k))]

\* tabs with rows of the three movement types, with months out of order
FolhasMovimentadas ==
  {[columns |-> cab_padrao, rows |-> r] :
      r \in { <<linha_gasto, linha_receita, linha_estorno>>,
              <<linha_uber, linha_receita>>,
              <<linha_receita>> }}

\* a tab with more payees than the lists of the page and of the workbook take
folha_cheia ==
  [columns |-> cab_padrao,
   rows |-> [k \in 1..MaxLojas |-> linha_loja(k)]
              \o [k \in 1..MaxClientes |-> linha_cliente(k)]]

WorkbooksMovimentados ==
  { [k \in 1..Len(f) |-> [name |-> NomesDeAbas[k], columns |-> f[k].columns,
                           rows |-> f[k].rows]] :
      f \in UNION {[1..n -> FolhasMovimentadas] : n \in 0..MaxSheets} }

InitAgregados ==
  /\ args = <<>> /\ ret = <<>>
  /\ active = {"web1"}
  /\ bi_xlsx \in {[exists |-> TRUE, sheets |-> w] : w \in WorkbooksMovimentados}
  /\ dashboard_html = SemArquivo /\ resumo_xlsx = SemArquivo
  /\ html_escrito = <<>> /\ xlsx_escrito = <<>>
  /\ next_run = 1
  /\ Parado

SpecAgregados == InitAgregados /\ [][Next]_vars

\* workbooks with the full tab, alone, followed or preceded by another
WorkbooksCheios ==
  LET outra == [columns |-> cab_padrao, rows |-> <<linha_uber, linha_receita>>]
  IN { [k \in 1..Len(f) |-> [name |-> NomesDeAbas[k], columns |-> f[k].columns,
                               rows |-> f[k].rows]] :
         f \in {<<folha_cheia>>, <<folha_cheia, outra>>, <<outra, folha_cheia>>} }

InitCheio ==
  /\ args = <<>> /\ ret = <<>>
  /\ active = {"web1"}
  /\ bi_xlsx \in {[exists |-> TRUE, sheets |-> w] : w \in WorkbooksCheios}
  /\ dashboard_html = SemArquivo /\ resumo_xlsx = SemArquivo
  /\ html_escrito = <<>> /\ xlsx_escrito = <<>>
  /\ next_run = 1
  /\ Parado

SpecCheio == InitCheio /\ [][Next]_vars

(* ------------------- the service with two requests at once ------------------- *)
\* a workbook whose runs succeed and one whose runs fail
WorkbooksConcorrentes ==
  { <<[name |-> "Jan", columns |-> cab_padrao, rows |-> r]>> :
      r \in {<<linha_gasto, linha_receita>>, <<linha_receita>>} }

\* app.run serves each request in a thread of its own: two of them
InitConcorrente ==
  /\ args = <<>> /\ ret = <<>>
  /\ active = {"web1", "web2"}
  /\ bi_xlsx \in {[exists |-> TRUE, sheets |-> w] : w \in WorkbooksConcorrentes}
  /\ dashboard_html = SemArquivo /\ resumo_xlsx = SemArquivo
  /\ html_escrito = <<>> /\ xlsx_escrito = <<>>
  /\ next_run = 1
  /\ Parado

SpecConcorrente == InitConcorrente /\ [][Next]_vars

(* ---------------- one call of a function, on drawn arguments ---------------- *)
\* the rest of the program is not running
SemServico ==
  /\ active = {}
  /\ bi_xlsx = [exists |-> FALSE, sheets |-> <<>>]
  /\ dashboard_html = SemArquivo /\ resumo_xlsx = SemArquivo
  /\ html_escrito = <<>> /\ xlsx_escrito = <<>>
  /\ next_run = 1
  /\ Parado

naoHarness == <<active, bi_xlsx, dashboard_html, resumo_xlsx,
                html_escrito, xlsx_escrito, next_run,
                pc, run, abas, aba_idx, dados_combinados, df, log, success, erro,
                resposta>>

\* pieces the 'tipo' texts are put together from
PedacosTipo ==
  { <<>>,
    <<"P","i","x"," ">>,
    <<"e","n","v","i","a","d","o">>,
    <<"r","e","c","e","b","i","d","o">>,
    <<"R","E","C","E","B","I","D","O"," ">>,
    <<" ","E","n","v","i","a","d","o">>,
    <<"C","o","m","p","r","a">> }

TextosTipo == {a \o b : a, b \in PedacosTipo}

Valores == {Num(-50), Num(-10), Num(0), Num(10), Num(30), NaNNum}

\* a row's 'tipo' and 'valor' cells
InitClassificar ==
  /\ args \in ({Txt(x) : x \in TextosTipo} \cup {NaNTxt}) \X Valores
  /\ ret = <<>>
  /\ SemServico

\* df_completo['tipo'].str.strip(), then classificar_movimentacao on the row
ChamarClassificar ==
  /\ ret = <<>>
  /\ ret' = <<classificar_movimentacao(StrStrip(args[1]), args[2])>>
  /\ UNCHANGED <<args, naoHarness>>

SpecClassificar == InitClassificar /\ [][ChamarClassificar]_vars

\* pieces the payee texts are put together from
PedacosDestinatario ==
  { <<>>,
    <<"S","U","P","E","R","M","E","R","C","A","D","O"," ">>,
    <<"Z","A","F","F","A","R","I">>,
    <<"S","u","p","e","r","m","e","r","c","a","d","o"," ","Z","a","f","f","a","r","i">>,
    <<"D","E","S","C","O","N","H","E","C","I","D","O"," ","L","T","D","A">>,
    <<"E","s","c","o","l","a"," ">>,
    <<"u","b","e","r">>,
    <<"F","a","r","m","á","c","i","a">>,
    <<"B","a","n","c","o">>,
    <<" ","I","t","a","u">> }

TextosDestinatario == {a \o b : a, b \in PedacosDestinatario}

\* a row's 'destinatário/pagador' cell
InitCategoria ==
  /\ args \in {<<Txt(x)>> : x \in TextosDestinatario} \cup {<<NaNTxt>>}
  /\ ret = <<>>
  /\ SemServico

\* df['destinatário/pagador'].apply(classificar_categoria) on one cell
ChamarCategoria ==
  /\ ret = <<>>
  /\ ret' = <<classificar_categoria(args[1])>>
  /\ UNCHANGED <<args, naoHarness>>

SpecCategoria == InitCategoria /\ [][ChamarCategoria]_vars

\* headers a sheet's header row is drawn from
Cabecalhos == {h_Data, h_Tipo, h_Valor, h_VALOR, h_ValorRS, h_ValorPago, h_TotalValor}

\* header rows of at most MaxCols different headers
InitColunas ==
  /\ args \in {c \in UNION {[1..n -> Cabecalhos] : n \in 0..MaxCols} :
                 \A j, k \in 1..Len(c) : j # k => c[j] # c[k]}
  /\ ret = <<>>
  /\ SemServico

\* the header row after `df.columns = [...]` and the if / elif / for
ChamarColunas ==
  /\ ret = <<>>
  /\ ret' = <<resolver_coluna_valor(padronizar_colunas(args))>>
  /\ UNCHANGED <<args, naoHarness>>

SpecColunas == InitColunas /\ [][ChamarColunas]_vars

(* ============================== properties ============================== *)

(* ---- C1 ---- *)
\* C1: the movement type of a row is decided, case-insensitively on the
\* trimmed type text and on the sign of the value, by five rules in order:
\* 'enviado' in the text -> Gasto; else value < 0 and no 'recebido' -> Gasto;
\* else 'recebido' in the text -> Receita; else value > 0 -> Receita; else
\* Outro.  ('recebido', -50) is Receita, ('enviado', 30) Gasto, ('', -10)
\* Gasto, ('', 10) Receita, ('', 0) Outro, and a text with both words is
\* Gasto whatever the sign.
C1_MovimentacaoPorRegras ==
  ret # <<>> =>
    LET texto == Lower(PyStr(StrStrip(args[1])))
        enviado == Contains(s_enviado, texto)
        recebido == Contains(s_recebido, texto)
        negativo == ~args[2].nan /\ args[2].v < 0
        positivo == ~args[2].nan /\ args[2].v > 0
    IN /\ ret[1] = IF enviado THEN "Gasto"
                   ELSE IF negativo /\ ~recebido THEN "Gasto"
                   ELSE IF recebido THEN "Receita"
                   ELSE IF positivo THEN "Receita"
                   ELSE "Outro"
       /\ (args = <<Txt(s_recebido), Num(-50)>> => ret[1] = "Receita")
       /\ (args = <<Txt(<<"R","E","C","E","B","I","D","O"," ">>), Num(-50)>> => ret[1] = "Receita")
       /\ (args = <<Txt(s_enviado), Num(30)>> => ret[1] = "Gasto")
       /\ (args = <<Txt(<<>>), Num(-10)>> => ret[1] = "Gasto")
       /\ (args = <<Txt(<<>>), Num(10)>> => ret[1] = "Receita")
       /\ (args = <<Txt(<<>>), Num(0)>> => ret[1] = "Outro")
       /\ (args[1] \in {Txt(s_enviado \o s_recebido), Txt(s_recebido \o s_enviado)}
             => ret[1] = "Gasto")

\* a negative value whose text says 'recebido' has been classified Receita
C1_Witness == args = <<Txt(s_recebido), Num(-50)>> /\ ret = <<"Receita">>

(* ---- C2 ---- *)
Min(S) == CHOOSE x \in S : \A y \in S : x <= y

\* C2: the category of a payee is that of the first entry of the keyword
\* table, in table order, one of whose keywords occurs in the upper-cased
\* payee, and 'Outros' when no keyword occurs (an empty or missing payee
\* included).  'SUPERMERCADO ZAFFARI' is 'Alimentação', 'DESCONHECIDO LTDA' is
\* 'Outros', and a payee with keywords of two categories gets the earlier one.
C2_PrimeiraCategoria ==
  ret # <<>> =>
    LET u == Upper(PyStr(args[1]))
        achadas == {i \in 1..Len(categorias) :
                      \E j \in 1..Len(categorias[i].palavras) :
                         Contains(categorias[i].palavras[j], u)}
    IN /\ ret[1] = IF achadas = {} THEN "Outros"
                   ELSE categorias[Min(achadas)].categoria
       /\ (args[1] = Txt(<<"S","U","P","E","R","M","E","R","C","A","D","O"," ","Z","A","F","F","A","R","I">>) => ret[1] = "Alimentação")
       /\ (args[1] = Txt(<<"S","u","p","e","r","m","e","r","c","a","d","o"," ","Z","a","f","f","a","r","i">>) => ret[1] = "Alimentação")
       /\ (args[1] = Txt(<<"D","E","S","C","O","N","H","E","C","I","D","O"," ","L","T","D","A">>) => ret[1] = "Outros")
       /\ (args[1] \in {Txt(<<>>), NaNTxt} => ret[1] = "Outros")
       /\ (args[1] \in {Txt(<<"E","s","c","o","l","a"," ","Z","A","F","F","A","R","I">>), Txt(<<"Z","A","F","F","A","R","I","E","s","c","o","l","a"," ">>)} => ret[1] = "Educação")
       /\ (args[1] \in {Txt(<<"u","b","e","r","B","a","n","c","o">>), Txt(<<"B","a","n","c","o","u","b","e","r">>)} => ret[1] = "Transporte")

\* a payee naming a supermarket and a school, the supermarket first, has been
\* given the school's category, which is the earlier one in the table
C2_Witness == args = <<Txt(<<"Z","A","F","F","A","R","I","E","s","c","o","l","a"," ">>)>> /\ ret = <<"Educação">>

(* ---- C4 ---- *)
\* C4: on a header row whose normalized names differ from one another, the
\* value column is resolved in this order: a column named 'valor' is used as
\* it is and no column is renamed; otherwise a 'valor (r$)' column is renamed
\* to 'valor'; otherwise the first column whose name contains 'valor' is
\* renamed to 'valor'.  A header row with a value column then has exactly one
\* column named 'valor'.
C4_OrdemDeResolucao ==
  ret # <<>> =>
    LET cols == padronizar_colunas(args)
        com_valor == {k \in 1..Len(cols) : Contains(s_valor, cols[k])}
    IN (\A j, k \in 1..Len(cols) : j # k => cols[j] # cols[k]) =>
         /\ s_valor \in Range(cols) => ret[1] = cols
         /\ (s_valor \notin Range(cols) /\ s_valor_rs \in Range(cols)) =>
              ret[1] = rename(cols, s_valor_rs, s_valor)
         /\ (s_valor \notin Range(cols) /\ s_valor_rs \notin Range(cols)
               /\ com_valor # {}) =>
              ret[1] = [k \in 1..Len(cols) |->
                          IF k = Min(com_valor) THEN s_valor ELSE cols[k]]
         /\ com_valor # {} => n_colunas(ret[1], s_valor) = 1

(* ---- the pipeline: what the workbook says, read off the workbook ---- *)
\* the tabs of the workbook other than the placeholder, in workbook order
AbasDaPlanilha == SelectSeq(bi_xlsx.sheets, LAMBDA s : s.name # "Planilha2")

\* the tab has no column named 'valor' or 'valor (r$)' and none whose
\* normalized name contains 'valor'
SemColunaDeValor(s) ==
  \A k \in 1..Len(s.columns) : ~Contains(s_valor, Strip(Lower(s.columns[k])))

\* the tab's date column is absent (or not single) or has a cell that is no date
DataRuim(s) ==
  \/ Cardinality({k \in 1..Len(s.columns) : Strip(Lower(s.columns[k])) = s_data}) # 1
  \/ \E k \in 1..Len(s.rows) : ~s.rows[k].data.parse

\* the thread's run has built its unified table
Unificou(p) == df[p].columns # {}

(* ---- C3 ---- *)
\* C3: a tab with no resolvable value column is skipped with a logged reason:
\* once the loop is past it, its name has been printed, it has put no frame
\* among the frames to concatenate, and none of its rows is in the unified
\* table.
C3_AbaSemValorFicaDeFora ==
  \A p \in active :
    \A k \in 1..aba_idx[p] :
      LET s == ler_aba(bi_xlsx.sheets, abas[p][k]) IN
      SemColunaDeValor(s) =>
        /\ \E j \in 1..Len(log[p]) : log[p][j] = s.name
        /\ \A j \in 1..Len(df[p].rows) : df[p].rows[j].origem # s.name

(* ---- C5 ---- *)
\* every tab of the workbook that is not the placeholder has a bad date column
NenhumaAbaValida ==
  /\ bi_xlsx.exists
  /\ \A k \in 1..Len(AbasDaPlanilha) : DataRuim(AbasDaPlanilha[k])

\* C5: when no tab survives normalization, no step of a run creates,
\* overwrites or removes either output file, no run gets past the loop to
\* the later stages, and a run that returns returns failure.
C5_SemAbaValidaNadaEscrito ==
  [][NenhumaAbaValida =>
       /\ dashboard_html' = dashboard_html
       /\ resumo_xlsx' = resumo_xlsx
       /\ \A p \in active :
            /\ pc'[p] \notin {"categorias", "dashboard", "exportar"}
            /\ pc'[p] = "retorno" =>
                 (~success'[p]
                  /\ erro'[p] = "ValueError: Nenhuma aba válida foi encontrada")]_vars

\* a run over a workbook whose tabs all failed has returned failure, with the
\* files of an earlier process still there
C5_Witness ==
  \E p \in active :
    /\ pc[p] = "retorno" /\ ~success[p]
    /\ erro[p] = "ValueError: Nenhuma aba válida foi encontrada"
    /\ Len(log[p]) = 2
    /\ dashboard_html = Arquivo(0, TRUE) /\ resumo_xlsx = Arquivo(0, TRUE)

(* ---- C6 ---- *)
\* C6: a tab whose date column is absent or does not parse is skipped: of the
\* tabs the loop has been through, exactly those are printed, in order, each
\* of the others has put one frame among the frames, no row of a frame or of
\* the unified table comes from a skipped tab, and the run does not end
\* before the loop has been through every tab.
C6_AbaComDataRuimPulada ==
  \A p \in active :
    LET lidas == SubSeq(abas[p], 1, aba_idx[p])
        ruins == SelectSeq(lidas, LAMBDA n : DataRuim(ler_aba(bi_xlsx.sheets, n)))
    IN /\ log[p] = ruins
       /\ pc[p] = "abas" => Len(dados_combinados[p]) = aba_idx[p] - Len(ruins)
       /\ \A f \in 1..Len(dados_combinados[p]) :
            \A j \in 1..Len(dados_combinados[p][f].rows) :
              \A k \in 1..Len(ruins) :
                dados_combinados[p][f].rows[j].origem # ruins[k]
       /\ \A j \in 1..Len(df[p].rows) :
            \A k \in 1..Len(ruins) : df[p].rows[j].origem # ruins[k]
       /\ pc[p] \in {"categorias", "dashboard", "exportar", "retorno"} =>
            aba_idx[p] = Len(abas[p])

\* the first tab was skipped for its dates and the run went on to unify the
\* rows of the second
C6_Witness ==
  \E p \in active :
    /\ pc[p] = "categorias"
    /\ Len(abas[p]) = 2 /\ log[p] = <<abas[p][1]>>
    /\ \E k \in 1..Len(ler_aba(bi_xlsx.sheets, abas[p][1]).rows) :
         ~ler_aba(bi_xlsx.sheets, abas[p][1]).rows[k].data.parse
    /\ Len(df[p].rows) = 2 /\ df[p].rows[1].origem = abas[p][2]

(* ---- C7 ---- *)
RECURSIVE LinhasEsperadas(_, _)
\* the rows of tabs k.. of the workbook, tab after tab and row after row,
\* leaving out the placeholder and the tabs with a bad date column
LinhasEsperadas(sheets, k) ==
  IF k > Len(sheets) THEN <<>>
  ELSE LET s == sheets[k] IN
       (IF s.name = "Planilha2" \/ DataRuim(s) THEN <<>>
        ELSE [j \in 1..Len(s.rows) |->
                [origem |-> s.name, data |-> s.rows[j].data,
                 destinatario |-> s.rows[j].destinatario,
                 valor |-> IF SemColunaDeValor(s) THEN NaNNum ELSE s.rows[j].valor]])
       \o LinhasEsperadas(sheets, k + 1)

C8_SemGastoOuReceitaFalha ==
  \A p \in active :
    (Unificou(p) /\ (do_tipo(df[p].rows, "Gasto") = <<>>
                      \/ do_tipo(df[p].rows, "Receita") = <<>>)) =>
      /\ pc[p] # "exportar" /\ ~success[p]
      /\ pc[p] = "retorno" => erro[p] # ""
      /\ dashboard_html.run # run[p] /\ resumo_xlsx.run # run[p]

\* a run over expenses only has returned failure
C8_Witness ==
  \E p \in active :
    /\ pc[p] = "retorno" /\ ~success[p]
    /\ Len(df[p].rows) = 2
    /\ do_tipo(df[p].rows, "Gasto") = df[p].rows
    /\ erro[p] = "IndexError: principais_fontes"

(* ---- C9 ---- *)
\* C9: a run that ends because writing the workbook failed returns failure
\* and leaves the page it wrote in place, whole; and whenever the workbook
\* file is that of a run, the page of that run was written before it.
C9_PaginaFicaQuandoExcelFalha ==
  \A p \in active :
    /\ (pc[p] = "retorno" /\ erro[p] = "OSError: resumo_financeiro_bi.xlsx") =>
         (~success[p] /\ dashboard_html = Arquivo(run[p], TRUE))
    /\ (run[p] > 0 /\ resumo_xlsx.exists /\ resumo_xlsx.run = run[p]) =>
         dashboard_html = Arquivo(run[p], TRUE)

\* the workbook of the run was cut short, the run returned failure and its
\* page is there
C9_Witness ==
  \E p \in active :
    /\ pc[p] = "retorno" /\ ~success[p]
    /\ resumo_xlsx = Arquivo(run[p], FALSE)
    /\ dashboard_html = Arquivo(run[p], TRUE)

(* ---- C10 ---- *)
\* C10: while Bi.xlsx does not exist no run gets past the existence test: no
\* tab list, no tab read, no table, no aggregate or output step, a run that
\* returns returns failure, and both output files are as the earlier process
\* left them.
C10_SemPlanilhaFalhaLogo ==
  ~bi_xlsx.exists =>
    /\ \A p \in active :
         /\ pc[p] \in {"idle", "verificar", "retorno"}
         /\ abas[p] = <<>> /\ aba_idx[p] = 0
         /\ dados_combinados[p] = <<>> /\ df[p] = SemDf
         /\ ~success[p]
         /\ pc[p] = "retorno" => erro[p] = "Arquivo Bi.xlsx não encontrado"
    /\ dashboard_html \in {SemArquivo, Arquivo(0, TRUE)}
    /\ resumo_xlsx \in {SemArquivo, Arquivo(0, TRUE)}

\* the request found no Bi.xlsx and returned failure
C10_Witness ==
  \E p \in active :
    /\ ~bi_xlsx.exists
    /\ pc[p] = "retorno" /\ erro[p] = "Arquivo Bi.xlsx não encontrado"
    /\ dashboard_html = Arquivo(0, TRUE)

(* ---- C11 ---- *)
\* C11: a download route answers with the output file when the file exists
\* and with the not-found status 404 when it does not, and serving it neither
\* creates nor changes either output file.
C11_DownloadOu404 ==
  [][\A p \in active :
       (resposta'[p] # resposta[p]
          /\ resposta'[p].rota \in {"download-dashboard", "download-excel"}) =>
         LET f == IF resposta'[p].rota = "download-dashboard"
                    THEN dashboard_html ELSE resumo_xlsx
         IN /\ dashboard_html' = dashboard_html /\ resumo_xlsx' = resumo_xlsx
            /\ f.exists => (resposta'[p].status = 200 /\ resposta'[p].anexo # ""
                              /\ resposta'[p].corpo = f)
            /\ ~f.exists => resposta'[p].status = 404]_vars

(* ---- the aggregates: what the files hold, read off the unified table ---- *)
\* the page of the thread's run is written, whole
PaginaInteira(p) == run[p] > 0 /\ dashboard_html = Arquivo(run[p], TRUE)

\* the workbook of the thread's run is written, whole
PastaInteira(p) == run[p] > 0 /\ resumo_xlsx = Arquivo(run[p], TRUE)

RECURSIVE Total(_, _)
\* the sum of the absolute values of the rows at the indices S, a missing
\* value counting for nothing
Total(rows, S) ==
  IF S = {} THEN 0
  ELSE LET j == CHOOSE x \in S : TRUE
       IN (IF rows[j].valor_absoluto.nan THEN 0 ELSE rows[j].valor_absoluto.v)
          + Total(rows, S \ {j})

\* the indices of the rows of movement type m
DoTipo(rows, m) == {j \in 1..Len(rows) : rows[j].tipo_movimentacao = m}

\* the list T has at most n entries, each a payee of rows of movement type m
\* with the sum of those rows, no payee twice, the sums in descending order
ListaDePrincipais(T, rows, m, n) ==
  LET deste(d) == {j \in DoTipo(rows, m) :
                     ~rows[j].destinatario.nan /\ rows[j].destinatario.s = d}
  IN /\ Len(T) <= n
     /\ \A k \in 1..Len(T) :
          /\ deste(T[k].chave) # {}
          /\ T[k].total = Total(rows, deste(T[k].chave))
     /\ \A j, k \in 1..Len(T) : j < k =>
          (T[j].chave # T[k].chave /\ T[j].total >= T[k].total)

(* ---- C12 ---- *)
\* C12 as stated: the lists of top payees and of top payers, on the page and
\* in the workbook sheets 'Principais Destinatários' and 'Fontes Pagadoras',
\* never have more than 15 entries, hold only payees of Gasto rows and of
\* Receita rows respectively, and are in descending order of the summed
\* absolute value.
C12_PrincipaisAte15 ==
  \A p \in active :
    /\ PaginaInteira(p) =>
         /\ ListaDePrincipais(html_escrito[1].principais_destinos, df[p].rows, "Gasto", 15)
         /\ ListaDePrincipais(html_escrito[1].principais_fontes, df[p].rows, "Receita", 15)
    /\ PastaInteira(p) =>
         /\ xlsx_escrito[1][3].sheet_name = "Principais Destinatários"
         /\ ListaDePrincipais(xlsx_escrito[1][3].tabela, df[p].rows, "Gasto", 15)
         /\ xlsx_escrito[1][4].sheet_name = "Fontes Pagadoras"
         /\ ListaDePrincipais(xlsx_escrito[1][4].tabela, df[p].rows, "Receita", 15)

\* C12 amended: the lists of top payees and of top payers never have more
\* than 15 entries on the page and never more than 50 in the workbook sheets
\* 'Principais Destinatários' and 'Fontes Pagadoras'; everywhere they hold
\* only payees of Gasto rows and of Receita rows respectively and are in
\* descending order of the summed absolute value.
C12_PrincipaisAte15NaPaginaAte50NaPasta ==
  \A p \in active :
    /\ PaginaInteira(p) =>
         /\ ListaDePrincipais(html_escrito[1].principais_destinos, df[p].rows, "Gasto", 15)
         /\ ListaDePrincipais(html_escrito[1].principais_fontes, df[p].rows, "Receita", 15)
    /\ PastaInteira(p) =>
         /\ xlsx_escrito[1][3].sheet_name = "Principais Destinatários"
         /\ ListaDePrincipais(xlsx_escrito[1][3].tabela, df[p].rows, "Gasto", 50)
         /\ xlsx_escrito[1][4].sheet_name = "Fontes Pagadoras"
         /\ ListaDePrincipais(xlsx_escrito[1][4].tabela, df[p].rows, "Receita", 50)

\* a table with more than 50 payees and more than 15 payers: the page lists
\* 15 of each, the workbook 50 payees and every payer
C12_Witness ==
  \E p \in active :
    /\ PaginaInteira(p) /\ PastaInteira(p)
    /\ Len(html_escrito[1].principais_destinos) = 15
    /\ Len(html_escrito[1].principais_fontes) = 15
    /\ Len(xlsx_escrito[1][3].tabela) = 50
    /\ Len(xlsx_escrito[1][4].tabela) > 15
    /\ Cardinality({df[p].rows[j].destinatario.s : j \in DoTipo(df[p].rows, "Gasto")}) > 50

(* ---- C13 ---- *)
\* C13: in the sheet 'Resumo Mensal', whenever there is a Saldo column, in
\* every period's row the Saldo, Receita and Gasto cells are numbers and
\* Saldo = Receita - Gasto, a period with rows of only one of the two
\* movement types included.
C13_SaldoEmTodoPeriodo ==
  \A p \in active :
    PastaInteira(p) =>
      LET T == xlsx_escrito[1][1].tabela
          col(m) == CHOOSE c \in 1..Len(T.columns) : T.columns[c] = m
      IN /\ xlsx_escrito[1][1].sheet_name = "Resumo Mensal"
         /\ "Saldo" \in Range(T.columns) =>
              \A k \in 1..Len(T.index) :
                LET S == T.values[k][col("Saldo")]
                    R == T.values[k][col("Receita")]
                    G == T.values[k][col("Gasto")]
                IN ~S.nan /\ ~R.nan /\ ~G.nan /\ S.v = R.v - G.v

(* ---- C14 ---- *)
\* C14: generation is idempotent on an unchanged workbook: when a run writes
\* an output file that an earlier run had written whole, the file then holds
\* one document, with the same aggregate values (totals, per-category totals,
\* top payees and payers, monthly tables, top transactions) as before; the
\* file is overwritten in place, at the same path.
C14_GeracaoIdempotente ==
  [][/\ (dashboard_html.run > 0 /\ dashboard_html.completo
           /\ dashboard_html'.completo /\ dashboard_html'.run # dashboard_html.run) =>
          (Len(html_escrito') = 1 /\ html_escrito' = html_escrito)
     /\ (resumo_xlsx.run > 0 /\ resumo_xlsx.completo
           /\ resumo_xlsx'.completo /\ resumo_xlsx'.run # resumo_xlsx.run) =>
          (Len(xlsx_escrito') = 1 /\ xlsx_escrito' = xlsx_escrito)]_vars

\* the first run wrote both files whole; the second has written the page
\* over the first's and is about to write the workbook over the first's
C14_Witness ==
  \E p \in active :
    /\ pc[p] = "exportar" /\ run[p] = 2
    /\ dashboard_html = Arquivo(2, TRUE) /\ resumo_xlsx = Arquivo(1, TRUE)
    /\ Len(html_escrito) = 1 /\ Len(xlsx_escrito) = 1
    /\ Len(xlsx_escrito[1]) = 7

(* ---- C15 ---- *)
\* C15: generation requests are not mutually excluded: whatever the other
\* thread is doing, a thread that is idle can start a run (while runs are
\* left), and a thread at the step that writes the page or the workbook can
\* take it; so two runs can be inside their output-writing steps at once and
\* leave a page and a workbook written by different runs.
C15_SemExclusaoMutua ==
  \A p \in active :
    /\ (pc[p] = "idle" /\ next_run <= MaxRuns) => ENABLED Generate(p)
    /\ pc[p] = "dashboard" => ENABLED CriarDashboard(p)
    /\ pc[p] = "exportar" => ENABLED Exportar(p)

\* two runs have both returned success; the page is that of one and the
\* workbook that of the other, which wrote its workbook after the first
\* had written both files
C15_Witness ==
  \E p, q \in active :
    /\ p # q /\ run[p] # run[q]
    /\ pc[p] = "retorno" /\ success[p] /\ pc[q] = "retorno" /\ success[q]
    /\ dashboard_html = Arquivo(run[q], TRUE)
    /\ resumo_xlsx = Arquivo(run[p], TRUE)

(* ---- C16 ---- *)
\* C16: every row of the unified table has a value and an absolute value that
\* are numbers, the absolute value is |value| (so it is not negative), and
\* its movement type is one of Gasto, Receita, Outro; once the table is
\* categorized every row has one category of the keyword table.
C16_LinhasBemFormadas ==
  \A p \in active :
    \A j \in 1..Len(df[p].rows) :
      LET r == df[p].rows[j] IN
      /\ ~r.valor.nan /\ ~r.valor_absoluto.nan
      /\ r.valor_absoluto.v >= 0
      /\ r.valor_absoluto.v = (IF r.valor.v < 0 THEN 0 - r.valor.v ELSE r.valor.v)
      /\ r.tipo_movimentacao \in {"Gasto", "Receita", "Outro"}
      /\ "categoria" \in DOMAIN r =>
           r.categoria \in {categorias[i].categoria : i \in 1..Len(categorias)}

(* ---- C17 ---- *)
RECURSIVE SomaDosTotais(_)
SomaDosTotais(T) == IF T = <<>> THEN 0 ELSE Head(T).total + SomaDosTotais(Tail(T))

\* the list T has one entry for each category of the Gasto rows, with the sum
\* of the Gasto rows of that category, the sums in descending order
TotaisPorCategoria(T, rows) ==
  /\ {T[k].chave : k \in 1..Len(T)} = {rows[j].categoria : j \in DoTipo(rows, "Gasto")}
  /\ \A k \in 1..Len(T) :
       T[k].total = Total(rows, {j \in DoTipo(rows, "Gasto") : rows[j].categoria = T[k].chave})
  /\ \A j, k \in 1..Len(T) : j < k =>
       (T[j].chave # T[k].chave /\ T[j].total >= T[k].total)

\* C17: the per-category totals, on the page and in the sheet 'Gastos por
\* Categoria', are those of the Gasto rows, in descending order, and add up
\* to the total of expenses; the total of expenses is the sum over the Gasto
\* rows and the total of income the sum over the Receita rows, so that a row
\* of type Outro is in none of them; the balance is income minus expenses.
C17_TotaisPorCategoriaSomamGastos ==
  \A p \in active :
    /\ PaginaInteira(p) =>
         LET H == html_escrito[1] IN
         /\ H.total_gastos = Total(df[p].rows, DoTipo(df[p].rows, "Gasto"))
         /\ H.total_receitas = Total(df[p].rows, DoTipo(df[p].rows, "Receita"))
         /\ H.saldo = H.total_receitas - H.total_gastos
         /\ TotaisPorCategoria(H.gastos_por_categoria, df[p].rows)
         /\ SomaDosTotais(H.gastos_por_categoria) = H.total_gastos
    /\ PastaInteira(p) =>
         /\ xlsx_escrito[1][2].sheet_name = "Gastos por Categoria"
         /\ TotaisPorCategoria(xlsx_escrito[1][2].tabela, df[p].rows)
         /\ SomaDosTotais(xlsx_escrito[1][2].tabela)
              = Total(df[p].rows, DoTipo(df[p].rows, "Gasto"))

\* a page and a workbook over a table with expenses of two categories, income
\* and a row of type Outro
C17_Witness ==
  \E p \in active :
    /\ PaginaInteira(p) /\ PastaInteira(p)
    /\ DoTipo(df[p].rows, "Outro") # {}
    /\ Len(html_escrito[1].gastos_por_categoria) = 2
    /\ html_escrito[1].total_gastos = 60 /\ html_escrito[1].total_receitas = 100
    /\ html_escrito[1].saldo = 40

(* ---- C18 ---- *)
\* C18: the monthly series of the page has one row per year-month of the
\* dates of the rows of the table, whatever tab they came from, in
\* chronological order, and one column per movement type that occurs in the
\* table; every cell is a number: the sum of the absolute values of the rows
\* of that month and movement type, 0 when there is none.
C18_SerieMensal ==
  \A p \in active :
    PaginaInteira(p) =>
      LET E == html_escrito[1].evolucao_mensal
          rows == df[p].rows
          P == {<<rows[j].data.ano, rows[j].data.mes>> : j \in 1..Len(rows)}
          antes(q) == {x \in P : x[1] < q[1] \/ (x[1] = q[1] /\ x[2] < q[2])}
          per(k) == CHOOSE q \in P : Cardinality(antes(q)) = k - 1
      IN /\ Len(E.index) = Cardinality(P)
         /\ \A k \in 1..Len(E.index) : E.index[k] = period_str(per(k))
         /\ {E.columns[c] : c \in 1..Len(E.columns)}
              = {rows[j].tipo_movimentacao : j \in 1..Len(rows)}
         /\ \A c, d \in 1..Len(E.columns) : c # d => E.columns[c] # E.columns[d]
         /\ \A k \in 1..Len(E.index) : \A c \in 1..Len(E.columns) :
              /\ ~E.values[k][c].nan
              /\ E.values[k][c].v =
                   Total(rows, {j \in DoTipo(rows, E.columns[c]) :
                                  <<rows[j].data.ano, rows[j].data.mes>> = per(k)})

\* two tabs, the first starting in March: the series has the three months
\* January to March in that order, February (in both tabs) once, and 0 for
\* the income of January
C18_Witness ==
  \E p \in active :
    /\ PaginaInteira(p)
    /\ Len(bi_xlsx.sheets) = 2 /\ df[p].rows[1].mes = 3
    /\ html_escrito[1].evolucao_mensal.index
         = << <<"2","0","2","4","-","0","1">>, <<"2","0","2","4","-","0","2">>,
              <<"2","0","2","4","-","0","3">> >>
    /\ html_escrito[1].evolucao_mensal.columns = <<"Gasto", "Outro", "Receita">>
    /\ html_escrito[1].evolucao_mensal.values[1] = <<Num(30), Num(0), Num(0)>>
    /\ html_escrito[1].evolucao_mensal.values[2] = <<Num(0), Num(0), Num(100)>>

(* ---- C19 ---- *)
\* C19: the answer of generate is always the page, never an exception: with
\* the success message only when the run of that request wrote its page,
\* whole, and then its workbook, whole; with the error message whenever a
\* step of the run raised. And a step that writes the workbook is taken only
\* when the page of the same run is already written.
C19_SucessoSoComPaginaDepoisPasta ==
  [][\A p \in active :
       /\ (resposta'[p] # resposta[p] /\ resposta'[p].rota = "generate") =>
            /\ resposta'[p].status = 200 /\ resposta'[p].anexo = ""
            /\ resposta'[p].message_type \in {"success", "error"}
            /\ resposta'[p].message_type = "success" =>
                 /\ success[p] /\ erro[p] = ""
                 /\ dashboard_html = Arquivo(run[p], TRUE)
                 /\ resumo_xlsx = Arquivo(run[p], TRUE)
            /\ erro[p] # "" => resposta'[p].message_type = "error"
       /\ (success'[p] /\ ~success[p]) =>
            /\ pc[p] = "exportar"
            /\ dashboard_html' = Arquivo(run[p], TRUE)
            /\ resumo_xlsx' = Arquivo(run[p], TRUE)
            /\ resumo_xlsx # resumo_xlsx'
       /\ (pc[p] = "exportar" /\ pc'[p] # "exportar") =>
            /\ dashboard_html = Arquivo(run[p], TRUE)
            /\ dashboard_html' = dashboard_html
       /\ (pc[p] # "exportar" /\ pc'[p] = pc[p]) =>
            (resumo_xlsx' = resumo_xlsx /\ xlsx_escrito' = xlsx_escrito)
       /\ (pc'[p] = "retorno" /\ pc[p] # "retorno") =>
            (success'[p] <=> erro'[p] = "")
    ]_vars

\* generate answered with the success message, the page and the workbook of
\* its run on disk
C19_Witness ==
  \E p \in active :
    /\ pc[p] = "idle" /\ resposta[p].rota = "generate"
    /\ resposta[p].message_type = "success"
    /\ run[p] > 0
    /\ dashboard_html = Arquivo(run[p], TRUE)
    /\ resumo_xlsx = Arquivo(run[p], TRUE)

(* ---- C20 ---- *)
\* C20: no step takes an output file away; the step by which a run succeeds
\* leaves both output files on disk; and whenever both are on disk the status
\* page (of / and of generate) lists both as available and each download
\* route answers with its file. So from the first success on, every status
\* page lists both files and every download gives a file.
C20_ArquivosNuncaSomem ==
  [][/\ dashboard_html.exists => dashboard_html'.exists
     /\ resumo_xlsx.exists => resumo_xlsx'.exists
     /\ \A p \in active :
          /\ (success'[p] /\ ~success[p]) =>
               (dashboard_html'.exists /\ resumo_xlsx'.exists)
          /\ (resposta'[p] # resposta[p] /\ dashboard_html.exists
                /\ resumo_xlsx.exists) =>
               /\ resposta'[p].rota \in {"index", "generate"} =>
                    /\ Len(resposta'[p].files_info) = 2
                    /\ \A k \in 1..2 : resposta'[p].files_info[k].disponivel
               /\ resposta'[p].rota = "download-dashboard" =>
                    /\ resposta'[p].anexo = "dashboard_financeiro_bi.html"
                    /\ resposta'[p].corpo = dashboard_html
               /\ resposta'[p].rota = "download-excel" =>
                    /\ resposta'[p].anexo = "resumo_financeiro_bi.xlsx"
                    /\ resposta'[p].corpo = resumo_xlsx
    ]_vars

\* the first run succeeded, the second failed writing the page, and the
\* download of the page still answers with a file
C20_Witness ==
  \E p \in active :
    /\ pc[p] = "idle" /\ run[p] = 2 /\ ~success[p]
    /\ resumo_xlsx = Arquivo(1, TRUE)
    /\ dashboard_html = Arquivo(2, FALSE)
    /\ resposta[p].rota = "download-dashboard"
    /\ resposta[p].anexo = "dashboard_financeiro_bi.html"
    /\ resposta[p].corpo.exists

(* ---- C21 ---- *)
\* C21: the page file is opened only when the aggregates and the insights of
\* the page have been computed: a step that changes the page file is taken
\* by a run whose table has Gasto rows and Receita rows; and while a run has
\* a table with no Gasto row or no Receita row, no step changes either
\* output file, stamp or content, and the run ends in failure.
C21_SoAbreDepoisDosAgregados ==
  [][\A p \in active :
       LET rows == df[p].rows
           vazio == DoTipo(rows, "Gasto") = {} \/ DoTipo(rows, "Receita") = {}
       IN /\ (pc[p] = "dashboard"
                /\ (dashboard_html' # dashboard_html
                      \/ html_escrito' # html_escrito)) => ~vazio
          /\ (pc[p] # "idle" /\ Unificou(p) /\ vazio) =>
               /\ dashboard_html' = dashboard_html
               /\ html_escrito' = html_escrito
               /\ resumo_xlsx' = resumo_xlsx
               /\ xlsx_escrito' = xlsx_escrito
               /\ pc'[p] # "exportar" /\ ~success'[p]
               /\ pc[p] = "dashboard" =>
                    (pc'[p] = "retorno" /\ erro'[p] # "")
    ]_vars

\* a run over income only has ended on the insights, and the page and the
\* workbook an earlier process left are as they were
C21_Witness ==
  \E p \in active :
    /\ pc[p] = "retorno" /\ ~success[p] /\ run[p] = 1
    /\ Len(df[p].rows) > 0
    /\ DoTipo(df[p].rows, "Gasto") = {}
    /\ erro[p] = "IndexError: principais_destinos"
    /\ dashboard_html = Arquivo(0, TRUE) /\ html_escrito = <<"anterior">>
    /\ resumo_xlsx = Arquivo(0, TRUE) /\ xlsx_escrito = <<"anterior">>
====
